---- MODULE Spec2Model ----
(***************************************************************************)
(* Model of the fixed-arena first-fit allocator of src/main.c.             *)
(*                                                                         *)
(* The arena `memory` is addressed by byte offset.  The allocator only     *)
(* ever reads and writes Block headers, so the arena is kept as the map    *)
(* from an offset to the Block header stored there.  A header stays in     *)
(* the map after mergeFreeBlocks unlinks it (the code never erases it);    *)
(* it leaves the map only when splitBlock writes another header over some  *)
(* of its bytes.  Payload bytes belong to the caller and are not kept.     *)
(*                                                                         *)
(* The arena capacity and the header size are scaled down; every guard     *)
(* and every size computation is the one of the source.                    *)
(* No size computed here leaves the range of int (at most MEMORY_SIZE plus  *)
(* one header), so plain integers stand for it.  Headers are read and      *)
(* written at any byte offset, as the source does: it makes no alignment   *)
(* promise for requests that are not a multiple of the header's alignment. *)
(***************************************************************************)
EXTENDS Integers, Sequences, FiniteSets, TLC

\* #define MEMORY_SIZE (scaled from 102400)
MEMORY_SIZE == 12

\* sizeof(Block) (scaled from 16 on LP64)
SizeofBlock == 2

\* the null pointer: no offset of the arena
NULL == -1

\* the sizes a caller passes to allocate: invalid ones on both sides included
Sizes == (0 - 1) .. (MEMORY_SIZE + 1)

VARIABLES
    mem,        \* offset -> Block header stored at that offset of `memory`
    freeList,   \* head of the block list: NULL before initialize(), then 0
    live,       \* caller's view: returned reference -> size it was requested with
    op,         \* the last call: "none", "allocate", "deallocate", or
                \* "deallocate_again" for a deallocate repeated at once
    arg,        \* its argument (a size, or a reference)
    ret,        \* its result (allocate: a reference or NULL; deallocate: NULL)
    pre,        \* the block list as it was when the last call was made
    rt          \* set by a deallocate that directly follows the allocate which
                \* returned its argument: the block list before that allocate

vars == <<mem, freeList, live, op, arg, ret, pre, rt>>

----------------------------------------------------------------------------
\* struct Block
Block(size, free, next) == [size |-> size, free |-> free, next |-> next]

\* offsets of other headers that share a byte with a header at offset o
Overlapping(o) ==
    {x \in (o - SizeofBlock + 1) .. (o + SizeofBlock - 1) : x # o}

\* storing a whole new header at offset o of the arena
WriteHeader(m, o, h) ==
    [x \in (DOMAIN m \ Overlapping(o)) \cup {o} |-> IF x = o THEN h ELSE m[x]]

\* initialize() that gives the first block the whole arena as payload
initializeWholeArena(m) ==
    WriteHeader(m, 0, Block(MEMORY_SIZE, TRUE, NULL))

\* initialize(): one big free block at offset 0
initialize(m) ==
    WriteHeader(m, 0, Block(MEMORY_SIZE - SizeofBlock, TRUE, NULL))

\* splitBlock with the new block's size computed without its own header
splitBlockNoHeaderInSize(m, fittingBlock, size) ==
    LET newBlock == fittingBlock + SizeofBlock + size
        m1 == WriteHeader(m, newBlock,
                  Block(m[fittingBlock].size - size, TRUE,
                        m[fittingBlock].next))
    IN  [m1 EXCEPT ![fittingBlock] = Block(size, FALSE, newBlock)]

\* splitBlock that ends the list at the new block
splitBlockDropsNext(m, fittingBlock, size) ==
    LET newBlock == fittingBlock + SizeofBlock + size
        m1 == WriteHeader(m, newBlock,
                  Block(m[fittingBlock].size - size - SizeofBlock, TRUE, NULL))
    IN  [m1 EXCEPT ![fittingBlock] = Block(size, FALSE, newBlock)]

\* splitBlock(fittingBlock, size)
splitBlock(m, fittingBlock, size) ==
    LET newBlock == fittingBlock + SizeofBlock + size
        m1 == WriteHeader(m, newBlock,
                  Block(m[fittingBlock].size - size - SizeofBlock, TRUE,
                        m[fittingBlock].next))
    IN  [m1 EXCEPT ![fittingBlock] = Block(size, FALSE, newBlock)]

\* a fit test that passes over a block of exactly the requested size
FitsStrictly(m, current, size) ==
    m[current].free /\ m[current].size > size

\* a fit test that does not look at the free flag
FitsIgnoringFree(m, current, size) ==
    m[current].size >= size

\* the condition of allocate's search loop for one block
Fits(m, current, size) ==
    m[current].free /\ m[current].size >= size

\* a search that keeps going and returns the last block that fits
RECURSIVE LastFit(_, _, _)
LastFit(m, current, size) ==
    IF current = NULL THEN NULL
    ELSE LET later == LastFit(m, m[current].next, size)
         IN  IF later # NULL THEN later
             ELSE IF m[current].free /\ m[current].size >= size THEN current
             ELSE NULL

\* allocate's while loop: the first block from `current` on that fits, or NULL
RECURSIVE FirstFit(_, _, _)
FirstFit(m, current, size) ==
    IF current = NULL THEN NULL
    ELSE IF Fits(m, current, size) THEN current
    ELSE FirstFit(m, m[current].next, size)

\* a split test that leaves the new block's header out of the comparison
ShouldSplitIgnoringHeader(m, current, size) ==
    m[current].size > size

\* a split test that also splits when exactly one header is left over
ShouldSplitAtEqual(m, current, size) ==
    m[current].size >= size + SizeofBlock

\* allocate's decision to split the chosen block
ShouldSplit(m, current, size) ==
    m[current].size > size + SizeofBlock

\* a size validation that lets a request of zero bytes through
InvalidSizeZeroAllowed(size) ==
    size < 0 \/ size > MEMORY_SIZE

\* allocate's size validation
InvalidSize(size) ==
    size <= 0 \/ size > MEMORY_SIZE

\* a reference that points at the header instead of past it
PayloadOfAtHeader(current) ==
    current

\* the reference allocate returns for a block: the byte after its header
PayloadOf(current) ==
    current + SizeofBlock

\* an allocate that calls initialize() on every call
allocateAlwaysInitializing(m, fl, size) ==
    IF InvalidSize(size)
    THEN [mem |-> m, freeList |-> fl, ret |-> NULL]
    ELSE LET m0 == initialize(m)
             fl0 == 0
             current == FirstFit(m0, fl0, size)
         IN  IF current = NULL
             THEN [mem |-> m0, freeList |-> fl0, ret |-> NULL]
             ELSE [mem |-> IF ShouldSplit(m0, current, size)
                           THEN splitBlock(m0, current, size)
                           ELSE [m0 EXCEPT ![current].free = FALSE],
                   freeList |-> fl0,
                   ret |-> PayloadOf(current)]

\* allocate(size): the arena, the list head and the returned reference
allocate(m, fl, size) ==
    IF InvalidSize(size)
    THEN [mem |-> m, freeList |-> fl, ret |-> NULL]
    ELSE LET m0 == IF fl = NULL THEN initialize(m) ELSE m
             fl0 == IF fl = NULL THEN 0 ELSE fl
             current == FirstFit(m0, fl0, size)
         IN  IF current = NULL
             THEN [mem |-> m0, freeList |-> fl0, ret |-> NULL]
             ELSE [mem |-> IF ShouldSplit(m0, current, size)
                           THEN splitBlock(m0, current, size)
                           ELSE [m0 EXCEPT ![current].free = FALSE],
                   freeList |-> fl0,
                   ret |-> PayloadOf(current)]

\* a merge that does not reclaim the absorbed block's header
MergeNextNoHeader(m, current) ==
    LET nxt == m[current].next
    IN  [m EXCEPT ![current].size = @ + m[nxt].size,
                  ![current].next = m[nxt].next]

\* one merge of mergeFreeBlocks: current absorbs current->next
MergeNext(m, current) ==
    LET nxt == m[current].next
    IN  [m EXCEPT ![current].size = @ + SizeofBlock + m[nxt].size,
                  ![current].next = m[nxt].next]

\* a merge loop that moves its cursor on after every merge as well
RECURSIVE mergeLoopAdvancing(_, _)
mergeLoopAdvancing(m, current) ==
    IF current = NULL THEN m
    ELSE IF m[current].next = NULL THEN m
    ELSE IF m[current].free /\ m[m[current].next].free
         THEN mergeLoopAdvancing(MergeNext(m, current),
                                 MergeNext(m, current)[current].next)
         ELSE mergeLoopAdvancing(m, m[current].next)

\* a merge loop that absorbs the next block whenever the current one is
\* free, without looking at the next block's free flag
RECURSIVE mergeRunAbsorbingAny(_, _, _)
mergeRunAbsorbingAny(m, current, n) ==
    IF current = NULL THEN [mem |-> m, iters |-> n]
    ELSE IF m[current].next = NULL THEN [mem |-> m, iters |-> n]
    ELSE IF m[current].free
         THEN mergeRunAbsorbingAny(MergeNext(m, current), current, n + 1)
         ELSE mergeRunAbsorbingAny(m, m[current].next, n + 1)

\* a merge loop that ends after its first merge
RECURSIVE mergeRunSingleMerge(_, _, _)
mergeRunSingleMerge(m, current, n) ==
    IF current = NULL THEN [mem |-> m, iters |-> n]
    ELSE IF m[current].next = NULL THEN [mem |-> m, iters |-> n]
    ELSE IF m[current].free /\ m[m[current].next].free
         THEN [mem |-> MergeNext(m, current), iters |-> n + 1]
         ELSE mergeRunSingleMerge(m, m[current].next, n + 1)

\* a merge loop that goes back to the head of the list after every merge
RECURSIVE mergeRunRestarting(_, _, _)
mergeRunRestarting(m, current, n) ==
    IF current = NULL THEN [mem |-> m, iters |-> n]
    ELSE IF m[current].next = NULL THEN [mem |-> m, iters |-> n]
    ELSE IF m[current].free /\ m[m[current].next].free
         THEN mergeRunRestarting(MergeNext(m, current), 0, n + 1)
         ELSE mergeRunRestarting(m, m[current].next, n + 1)

\* mergeFreeBlocks' while loop from `current` on, n iterations already made:
\* the arena it leaves and the number of iterations made at its end
RECURSIVE mergeRun(_, _, _)
mergeRun(m, current, n) ==
    IF current = NULL THEN [mem |-> m, iters |-> n]
    ELSE IF m[current].next = NULL THEN [mem |-> m, iters |-> n]
    ELSE IF m[current].free /\ m[m[current].next].free
         THEN mergeRun(MergeNext(m, current), current, n + 1)
         ELSE mergeRun(m, m[current].next, n + 1)

\* mergeFreeBlocks' while loop from `current` on: the arena it leaves
mergeLoop(m, current) == mergeRun(m, current, 0).mem

\* a deallocate path on which no coalescing happens
mergeFreeBlocksSkipped(m, fl) == m

\* mergeFreeBlocks()
mergeFreeBlocks(m, fl) == mergeLoop(m, fl)

\* deallocate's way back from a reference to the block's header
HeaderOf(ptr) ==
    ptr - SizeofBlock

\* a deallocate that sets the list up first, as allocate does, and only
\* then looks at its argument
deallocateInitFirst(m, fl, ptr) ==
    LET m0 == IF fl = NULL THEN initialize(m) ELSE m
    IN  IF ptr = NULL THEN m0
        ELSE mergeFreeBlocks([m0 EXCEPT ![HeaderOf(ptr)].free = TRUE], fl)

\* deallocate(ptr)
deallocate(m, fl, ptr) ==
    IF ptr = NULL THEN m
    ELSE LET block == HeaderOf(ptr)
         IN  mergeFreeBlocks([m EXCEPT ![block].free = TRUE], fl)

----------------------------------------------------------------------------
\* The block list: the headers reachable from the head through next, in
\* list order, each with the offset it is stored at.
RECURSIVE Walk(_, _)
Walk(m, current) ==
    IF current = NULL THEN << >>
    ELSE << [off |-> current, size |-> m[current].size,
             free |-> m[current].free, next |-> m[current].next] >>
         \o Walk(m, m[current].next)

ListOf(m, fl) == Walk(m, fl)

List == ListOf(mem, freeList)

NoRoundTrip == [valid |-> FALSE, init |-> FALSE, list |-> << >>]

----------------------------------------------------------------------------
Init ==
    /\ mem = << >>
    /\ freeList = NULL
    /\ live = << >>
    /\ op = "none"
    /\ arg = NULL
    /\ ret = NULL
    /\ pre = << >>
    /\ rt = NoRoundTrip

\* a call allocate(size)
Allocate(size) ==
    LET r == allocate(mem, freeList, size)
    IN  /\ mem' = r.mem
        /\ freeList' = r.freeList
        /\ live' = IF r.ret = NULL THEN live ELSE (r.ret :> size) @@ live
        /\ op' = "allocate"
        /\ arg' = size
        /\ ret' = r.ret
        /\ pre' = List
        /\ rt' = NoRoundTrip

\* a call deallocate(ptr), ptr being NULL or a live reference
Deallocate(ptr) ==
    /\ mem' = deallocate(mem, freeList, ptr)
    /\ freeList' = freeList
    /\ live' = [p \in DOMAIN live \ {ptr} |-> live[p]]
    /\ op' = "deallocate"
    /\ arg' = ptr
    /\ ret' = NULL
    /\ pre' = List
    /\ rt' = IF op = "allocate" /\ ret # NULL /\ ptr = ret
             THEN [valid |-> TRUE, init |-> pre = << >>, list |-> pre]
             ELSE NoRoundTrip

Next ==
    \/ \E size \in Sizes : Allocate(size)
    \/ \E ptr \in DOMAIN live \cup {NULL} : Deallocate(ptr)

Spec == Init /\ [][Next]_vars

\* a caller that breaks the contract: deallocate(ptr) once more, directly
\* after deallocate(ptr) on a live reference.  The header at ptr - header
\* size is still in the arena, in the list or unlinked by the first call,
\* and the code writes its free flag and runs the merge pass as ever.
DoubleFree ==
    /\ op = "deallocate"
    /\ arg # NULL
    /\ mem' = deallocate(mem, freeList, arg)
    /\ freeList' = freeList
    /\ live' = live
    /\ op' = "deallocate_again"
    /\ arg' = arg
    /\ ret' = NULL
    /\ pre' = List
    /\ rt' = NoRoundTrip

NextDoubleFree ==
    \/ Next
    \/ DoubleFree

\* the allocator under callers that may also free twice in a row
SpecDoubleFree == Init /\ [][NextDoubleFree]_vars

----------------------------------------------------------------------------
\* Properties.  `pre` is the block list at the entry of the last call and
\* List the one at its return.

\* the byte range [lo, hi) shares no byte with [lo2, hi2)
Disjoint(lo, hi, lo2, hi2) == hi <= lo2 \/ hi2 <= lo

\* the list a fresh arena has after initialize()
FreshList ==
    << [off |-> 0, size |-> MEMORY_SIZE - SizeofBlock, free |-> TRUE,
        next |-> NULL] >>

\* the list the last call started from, lazy initialization applied
EntryList == IF pre = << >> THEN FreshList ELSE pre

\* C1 (coverage): once the list is initialized its blocks partition the
\* arena exactly: the first block is at offset 0, every block's successor is
\* at block offset + header size + block size and is what next points to (so
\* offsets strictly increase), and the last block ends at MEMORY_SIZE.
C1_Coverage ==
    freeList # NULL =>
        /\ Len(List) >= 1
        /\ List[1].off = 0
        /\ \A i \in 1 .. Len(List) - 1 :
              /\ List[i + 1].off = List[i].off + SizeofBlock + List[i].size
              /\ List[i].off < List[i + 1].off
        /\ List[Len(List)].off + SizeofBlock + List[Len(List)].size
              = MEMORY_SIZE

\* C1 witness: a deallocate merged blocks and left a list of three or more
C1_Witness ==
    /\ op = "deallocate"
    /\ Len(List) < Len(pre)
    /\ Len(List) >= 3
    /\ C1_Coverage

\* C2 (no adjacent free blocks): after every allocate and every deallocate
\* no two neighbours of the list are both free.
C2_NoAdjacentFree ==
    \A i \in 1 .. Len(List) - 1 : ~(List[i].free /\ List[i + 1].free)

\* C2 witness: a deallocate whose single pass absorbed two headers
C2_Witness ==
    /\ op = "deallocate"
    /\ arg # NULL
    /\ Len(pre) - Len(List) = 2
    /\ C2_NoAdjacentFree

\* C3 (allocation validity): the requested bytes of every live reference
\* lie inside the arena, share no byte with those of another live
\* reference, and share no byte with any header of the list.
C3_AllocationValid ==
    \A p \in DOMAIN live :
        /\ 0 <= p
        /\ p + live[p] <= MEMORY_SIZE
        /\ \A q \in DOMAIN live \ {p} :
              Disjoint(p, p + live[p], q, q + live[q])
        /\ \A i \in 1 .. Len(List) :
              Disjoint(p, p + live[p], List[i].off, List[i].off + SizeofBlock)

\* C3 witness: three live references, one of them in a block that was not
\* split and is larger than what was requested
C3_Witness ==
    /\ Cardinality(DOMAIN live) >= 3
    /\ \E i \in 1 .. Len(List) :
          /\ ~List[i].free
          /\ (List[i].off + SizeofBlock) \in DOMAIN live
          /\ live[List[i].off + SizeofBlock] < List[i].size
    /\ C3_AllocationValid

\* index in list l of the first block that is free and holds `size` bytes,
\* 0 if there is none
ChosenIndex(l, size) ==
    LET S == {i \in 1 .. Len(l) : l[i].free /\ l[i].size >= size}
    IN  IF S = {} THEN 0 ELSE CHOOSE i \in S : \A j \in S : i <= j

\* what allocate(size) makes of list l, stated on the list alone
ListAfterAllocate(l, size) ==
    LET i == ChosenIndex(l, size)
    IN  IF i = 0 THEN l
        ELSE IF l[i].size > size + SizeofBlock
        THEN SubSeq(l, 1, i - 1)
             \o << [off |-> l[i].off, size |-> size, free |-> FALSE,
                    next |-> l[i].off + SizeofBlock + size],
                   [off |-> l[i].off + SizeofBlock + size,
                    size |-> l[i].size - size - SizeofBlock, free |-> TRUE,
                    next |-> l[i].next] >>
             \o SubSeq(l, i + 1, Len(l))
        ELSE [l EXCEPT ![i].free = FALSE]

\* C4 (first fit, determinism): for a valid size allocate takes the first
\* block in list order that is free and large enough, whatever comes later
\* in the list; its result and the list it leaves are a function of the
\* list it started from and the size alone.
C4_FirstFit ==
    (op = "allocate" /\ 0 < arg /\ arg <= MEMORY_SIZE) =>
        LET i == ChosenIndex(EntryList, arg)
        IN  /\ ret = IF i = 0 THEN NULL ELSE EntryList[i].off + SizeofBlock
            /\ List = ListAfterAllocate(EntryList, arg)

\* C4 witness: the block taken is followed, later in the list, by a free
\* block that would have fitted more tightly
C4_Witness ==
    /\ op = "allocate"
    /\ ret # NULL
    /\ \E i, j \in 1 .. Len(pre) :
          /\ i < j
          /\ pre[i].off + SizeofBlock = ret
          /\ pre[j].free
          /\ pre[j].size >= arg
          /\ pre[j].size < pre[i].size

\* C5 (invalid size): allocate(size) with size <= 0 or size > MEMORY_SIZE
\* returns NULL and writes nothing: the arena and the list head are as
\* before, so an uninitialized list stays uninitialized.
C5_InvalidSize ==
    [][(op' = "allocate" /\ (arg' <= 0 \/ arg' > MEMORY_SIZE)) =>
          (ret' = NULL /\ mem' = mem /\ freeList' = freeList)]_vars

\* C5 witness: allocate(MEMORY_SIZE + 1) was called on the untouched arena
C5_Witness ==
    /\ op = "allocate"
    /\ arg = MEMORY_SIZE + 1
    /\ ret = NULL
    /\ freeList = NULL

\* C6 (out of memory): for 0 < size <= MEMORY_SIZE allocate returns NULL
\* exactly when the list, lazily initialized, has no free block of at least
\* size bytes; when that happens on an initialized list the list is
\* unchanged.
C6_OutOfMemory ==
    (op = "allocate" /\ 0 < arg /\ arg <= MEMORY_SIZE) =>
        /\ (ret = NULL) <=>
              ~(\E i \in 1 .. Len(EntryList) :
                    EntryList[i].free /\ EntryList[i].size >= arg)
        /\ (ret = NULL /\ pre # << >>) => List = pre

\* C6 witness: a request that a fresh arena could serve fails on a list
\* that still has free blocks, each too small
C6_Witness ==
    /\ op = "allocate"
    /\ 0 < arg
    /\ arg <= MEMORY_SIZE - SizeofBlock
    /\ ret = NULL
    /\ \E i \in 1 .. Len(pre) : pre[i].free
    /\ List = pre

\* C7 (split): when the block taken has size = requested + header + k with
\* k >= 1, it becomes an allocated block of exactly the requested size,
\* followed in the list by a new free block of size k at the end of the
\* requested bytes, whose next is the taken block's former next.
C7_Split ==
    (op = "allocate" /\ ret # NULL) =>
        \A i \in 1 .. Len(EntryList) :
            (/\ EntryList[i].off + SizeofBlock = ret
             /\ EntryList[i].free
             /\ EntryList[i].size >= arg + SizeofBlock + 1) =>
                /\ Len(List) > i
                /\ List[i] = [off |-> EntryList[i].off, size |-> arg,
                              free |-> FALSE, next |-> ret + arg]
                /\ List[i + 1] =
                       [off |-> ret + arg,
                        size |-> EntryList[i].size - arg - SizeofBlock,
                        free |-> TRUE, next |-> EntryList[i].next]

\* C7 witness: a split with k = 1, of a block that is not the last one
C7_Witness ==
    /\ op = "allocate"
    /\ ret # NULL
    /\ \E i \in 1 .. Len(pre) :
          /\ pre[i].off + SizeofBlock = ret
          /\ pre[i].size = arg + SizeofBlock + 1
          /\ pre[i].next # NULL
          /\ Len(List) = Len(pre) + 1
          /\ List[i + 1].size = 1

\* C8 (no split): when the block taken leaves less than one header beyond
\* the requested size, the list keeps its length and the block keeps its
\* offset, size and next; only its free flag changes.
C8_NoSplit ==
    (op = "allocate" /\ ret # NULL) =>
        \A i \in 1 .. Len(EntryList) :
            (/\ EntryList[i].off + SizeofBlock = ret
             /\ EntryList[i].free
             /\ EntryList[i].size - arg < SizeofBlock) =>
                /\ Len(List) = Len(EntryList)
                /\ List[i] = [EntryList[i] EXCEPT !.free = FALSE]

\* C8 witness: a block taken whole although it is larger than the request
C8_Witness ==
    /\ op = "allocate"
    /\ ret # NULL
    /\ \E i \in 1 .. Len(pre) :
          /\ pre[i].off + SizeofBlock = ret
          /\ pre[i].size > arg
          /\ pre[i].size < arg + SizeofBlock
          /\ Len(List) = Len(pre)
          /\ List[i].size = pre[i].size
          /\ ~List[i].free

\* sum of the sizes of blocks a .. b of list l
RECURSIVE SumSizes(_, _, _)
SumSizes(l, a, b) ==
    IF a > b THEN 0 ELSE l[a].size + SumSizes(l, a + 1, b)

\* C9 (coalescing): deallocating a live block with a free left neighbour, a
\* free right neighbour or both leaves in their place one free block at the
\* offset of the leftmost of them, of the sum of their sizes plus one header
\* per absorbed block, whose next is that of the rightmost of them.
C9_Coalescing ==
    (op = "deallocate" /\ arg # NULL) =>
        \A i \in 1 .. Len(pre) :
            pre[i].off + SizeofBlock = arg =>
                LET L == i > 1 /\ pre[i - 1].free
                    R == i < Len(pre) /\ pre[i + 1].free
                    a == IF L THEN i - 1 ELSE i
                    b == IF R THEN i + 1 ELSE i
                IN  (L \/ R) =>
                        List = SubSeq(pre, 1, a - 1)
                               \o << [off |-> pre[a].off,
                                      size |-> SumSizes(pre, a, b)
                                               + (b - a) * SizeofBlock,
                                      free |-> TRUE,
                                      next |-> pre[b].next] >>
                               \o SubSeq(pre, b + 1, Len(pre))

\* C9 witness: the freed block had a free block on either side, and the
\* merged block is not the whole arena
C9_Witness ==
    /\ op = "deallocate"
    /\ arg # NULL
    /\ Len(List) >= 2
    /\ \E i \in 2 .. Len(pre) - 1 :
          /\ pre[i].off + SizeofBlock = arg
          /\ pre[i - 1].free
          /\ pre[i + 1].free

\* C10 (round trip): a successful allocate directly followed by deallocate
\* of the reference it returned leaves the list as it was before the
\* allocate; on the fresh arena that is one free block of
\* MEMORY_SIZE - header size.
C10_RoundTrip ==
    rt.valid => List = IF rt.init THEN FreshList ELSE rt.list

\* C10 witness: such a pair was made on an initialized list of three or
\* more blocks, and the allocate had split a block
C10_Witness ==
    /\ rt.valid
    /\ ~rt.init
    /\ Len(rt.list) >= 3
    /\ Len(pre) = Len(rt.list) + 1
    /\ List = rt.list

\* C11 (live references stay valid): over every call, each reference the
\* caller holds afterwards has its header in the list, marked allocated and
\* at least as large as requested; if the caller already held it before
\* the call, that header's size is what it was.
C11_LiveStayValid ==
    [][\A p \in DOMAIN live' :
          /\ \E i \in 1 .. Len(ListOf(mem', freeList')) :
                /\ ListOf(mem', freeList')[i].off = p - SizeofBlock
                /\ ~ListOf(mem', freeList')[i].free
                /\ ListOf(mem', freeList')[i].size >= live'[p]
          /\ p \in DOMAIN live =>
                mem'[p - SizeofBlock].size = mem[p - SizeofBlock].size]_vars

\* C11 witness: a deallocate merged blocks while two other references were
\* held, and both still have their allocated header in the list
C11_Witness ==
    /\ op = "deallocate"
    /\ arg # NULL
    /\ Len(List) < Len(pre)
    /\ Cardinality(DOMAIN live) >= 2
    /\ \A p \in DOMAIN live :
          \E i \in 1 .. Len(List) :
              /\ List[i].off = p - SizeofBlock
              /\ ~List[i].free
              /\ \E j \in 1 .. Len(pre) : pre[j] = List[i]

\* C12 (deallocate(NULL)): the call writes nothing: the arena and the list
\* head are as before, so no block is merged and an uninitialized list
\* stays uninitialized.
C12_DeallocateNull ==
    [][(op' = "deallocate" /\ arg' = NULL) =>
          (mem' = mem /\ freeList' = freeList /\ live' = live)]_vars

\* C12 witness: deallocate(NULL) was called on the untouched arena
C12_Witness ==
    /\ op = "deallocate"
    /\ arg = NULL
    /\ freeList = NULL
    /\ mem = << >>

\* C13 (termination): the list is finite and its offsets strictly
\* increase, so allocate's search and the merge pass, which only move
\* forward along it, end; the merge loop of a deallocate makes at most
\* (number of blocks at entry - 1) iterations.
C13_Termination ==
    [][/\ \A i \in 1 .. Len(ListOf(mem', freeList')) - 1 :
            ListOf(mem', freeList')[i].off < ListOf(mem', freeList')[i + 1].off
       /\ (op' = "deallocate" /\ arg' # NULL) =>
            LET r == mergeRun([mem EXCEPT ![HeaderOf(arg')].free = TRUE],
                              freeList, 0)
            IN  /\ r.mem = mem'
                /\ r.iters <= Len(List) - 1]_vars

\* C13 witness: a deallocate on a list of four blocks whose loop merged
\* twice without moving its cursor in between
C13_Witness ==
    /\ op = "deallocate"
    /\ arg # NULL
    /\ Len(pre) >= 4
    /\ Len(pre) - Len(List) = 2

\* the offsets of the headers of list l
Offsets(l) == {l[i].off : i \in 1 .. Len(l)}

\* C14 (allocate frame): a successful allocate on an initialized list
\* changes the header of the block it takes and adds at most one header;
\* every other block keeps its offset, size, free flag and next, and the
\* list grows by at most one block.
C14_AllocateFrame ==
    (op = "allocate" /\ ret # NULL /\ pre # << >>) =>
        /\ Len(List) - Len(pre) \in {0, 1}
        /\ Cardinality(Offsets(List) \ Offsets(pre)) <= 1
        /\ \A i \in 1 .. Len(pre) :
              pre[i].off # ret - SizeofBlock =>
                  \E j \in {i, i + 1} \cap (1 .. Len(List)) : List[j] = pre[i]

\* C14 witness: a split of a block that has blocks on either side
C14_Witness ==
    /\ op = "allocate"
    /\ ret # NULL
    /\ Len(List) = Len(pre) + 1
    /\ \E i \in 2 .. Len(pre) - 1 :
          /\ pre[i].off = ret - SizeofBlock
          /\ List[i - 1] = pre[i - 1]
          /\ List[i + 2] = pre[i + 1]

\* C15 (deallocate without free neighbours): deallocating a live block
\* whose list predecessor and successor, where they exist, are allocated
\* changes that block's free flag and nothing else in the list.
C15_DeallocateAlone ==
    (op = "deallocate" /\ arg # NULL) =>
        \A i \in 1 .. Len(pre) :
            (/\ pre[i].off + SizeofBlock = arg
             /\ ~(i > 1 /\ pre[i - 1].free)
             /\ ~(i < Len(pre) /\ pre[i + 1].free)) =>
                List = [pre EXCEPT ![i].free = TRUE]

\* C15 witness: the freed block sits between two allocated blocks
C15_Witness ==
    /\ op = "deallocate"
    /\ arg # NULL
    /\ \E i \in 2 .. Len(pre) - 1 :
          /\ pre[i].off + SizeofBlock = arg
          /\ ~pre[i - 1].free
          /\ ~pre[i + 1].free
          /\ Len(List) = Len(pre)
          /\ List[i].free

\* once the list exists no call makes it anew: the head stays, a
\* successful allocate made while references are held does not leave the
\* list a fresh arena would give it, and no deallocate that leaves
\* references held leaves the single free block
NeverReinitialized ==
    freeList # NULL =>
        /\ freeList' = freeList
        /\ (op' = "allocate" /\ ret' # NULL /\ DOMAIN live # {}) =>
              ListOf(mem', freeList') # ListAfterAllocate(FreshList, arg')
        /\ DOMAIN live' # {} => ListOf(mem', freeList') # FreshList

\* C16 as stated: the first allocate call creates the list, and no later
\* call re-initializes it.  (Refuted: a first call allocate(size) with
\* size <= 0 or size > MEMORY_SIZE returns before initialize().)
C16_FirstCallInitializes ==
    [][/\ (op = "none" /\ op' = "allocate") => freeList' # NULL
       /\ NeverReinitialized]_vars

\* C16 (lazy initialization, once), amended: the list is created by the
\* first allocate call with a valid size (0 < size <= MEMORY_SIZE), as one
\* free block at offset 0 of MEMORY_SIZE - header size with no successor,
\* from which that same call then allocates; every call before it leaves
\* the list uninitialized, and no later call re-initializes it.
C16_LazyInitOnce ==
    [][/\ (freeList = NULL /\ op' = "allocate"
                /\ 0 < arg' /\ arg' <= MEMORY_SIZE) =>
            /\ freeList' = 0
            /\ ListOf(mem', freeList') = ListAfterAllocate(FreshList, arg')
       /\ (freeList = NULL
                /\ ~(op' = "allocate" /\ 0 < arg' /\ arg' <= MEMORY_SIZE)) =>
            /\ freeList' = NULL
            /\ mem' = mem
       /\ NeverReinitialized]_vars

\* C16 witness: a successful allocate on a list that existed at its entry,
\* made while another reference was held
C16_Witness ==
    /\ op = "allocate"
    /\ ret # NULL
    /\ pre # << >>
    /\ freeList = 0
    /\ Cardinality(DOMAIN live) >= 2
    /\ List # ListAfterAllocate(FreshList, arg)

\* C17 (sizes stay positive): every block of the list has size >= 1; a
\* split never makes an empty or negative block.
C17_SizesPositive ==
    \A i \in 1 .. Len(List) : List[i].size >= 1

\* C17 witness: a block was taken whole because exactly one header's worth
\* was left over, where a split would have made a block of size 0
C17_Witness ==
    /\ op = "allocate"
    /\ ret # NULL
    /\ Len(List) = Len(EntryList)
    /\ \E i \in 1 .. Len(EntryList) :
          /\ EntryList[i].off + SizeofBlock = ret
          /\ EntryList[i].size = arg + SizeofBlock
          /\ List[i].size = arg + SizeofBlock
    /\ C17_SizesPositive

\* C18 (largest satisfiable request): on a fresh arena allocate(size)
\* succeeds exactly for 0 < size <= MEMORY_SIZE - header size; in every
\* state a request above that and up to MEMORY_SIZE gets past the size
\* validation (the list exists afterwards) and returns NULL, no block ever
\* being larger than MEMORY_SIZE - header size.
C18_LargestRequest ==
    /\ (op = "allocate" /\ EntryList = FreshList) =>
          ((ret # NULL) <=> (0 < arg /\ arg <= MEMORY_SIZE - SizeofBlock))
    /\ (op = "allocate" /\ MEMORY_SIZE - SizeofBlock < arg
            /\ arg <= MEMORY_SIZE) =>
          (ret = NULL /\ freeList # NULL)
    /\ \A i \in 1 .. Len(List) : List[i].size <= MEMORY_SIZE - SizeofBlock

\* C18 witness: allocate(MEMORY_SIZE) as the call that set the list up
C18_Witness ==
    /\ op = "allocate"
    /\ arg = MEMORY_SIZE
    /\ pre = << >>
    /\ ret = NULL
    /\ List = FreshList

\* C19 (full reclamation): whenever the list exists and the caller holds
\* no reference, the list is the single free block at offset 0 of
\* MEMORY_SIZE - header size.
C19_FullReclamation ==
    (freeList # NULL /\ DOMAIN live = {}) => List = FreshList

\* C19 witness: the last held reference was given back on a list of three
\* or more blocks
C19_Witness ==
    /\ op = "deallocate"
    /\ arg # NULL
    /\ DOMAIN live = {}
    /\ Len(pre) >= 3
    /\ List = FreshList

\* C20 (immediate double free): a second deallocate of the same reference
\* directly after the first leaves the list as the first call left it.
\* Checked under SpecDoubleFree.
C20_DoubleFreeHarmless ==
    op = "deallocate_again" => (List = pre /\ freeList = 0)

\* C20 witness: the second call wrote to a header that the first call had
\* merged into its left neighbour and so is no longer in the list
C20_Witness ==
    /\ op = "deallocate_again"
    /\ (arg - SizeofBlock) \notin Offsets(List)
    /\ (arg - SizeofBlock) \in DOMAIN mem
    /\ Len(List) >= 2
    /\ List = pre

====
